---- MODULE Spec2Model ----
(***************************************************************************)
(* Campaign execution engine of msme-campaign-central.                     *)
(*                                                                         *)
(* Three specifications share this module:                                 *)
(*   Spec        the campaign API (create / update / delete / execute)     *)
(*               and the background CampaignService.execute_campaign task; *)
(*   SpecBulk    one run of EmailService.send_bulk_emails over a job list; *)
(*   SpecClient  one call of a channel client (EmailService.send_email,    *)
(*               WhatsAppService.send_message), of _clean_phone_number or  *)
(*               of TemplateService.render_template / extract_variables.   *)
(*                                                                         *)
(* The API handlers are `async def` bodies without an await, so each is    *)
(* one atomic step of the event loop.  The background task runs without    *)
(* suspension up to its first real await (asyncio.sleep in the WhatsApp    *)
(* loop); `cur` names the task that is inside such an atomic stretch.      *)
(***************************************************************************)
EXTENDS Integers, Sequences, FiniteSets, TLC

\* ---------------------------------------------------------------- bounds
MaxTasks == 2
MaxExecutions == 2
MaxVendors == 3
MaxJobs == 12

\* Campaigns share no state (each run reads and writes only its own row and
\* its own response rows): the model follows one campaign row.
CampaignIds == {1}
TaskIds == 1..MaxTasks
VendorIds == 1..MaxVendors

\* ------------------------------------------------------------ enumerations
DRAFT == "Draft"
ACTIVE == "Active"
COMPLETED == "Completed"
CANCELLED == "Cancelled"
CampaignStatus == {DRAFT, ACTIVE, COMPLETED, CANCELLED}

PENDING == "Pending"

NoCampaign == [status |-> "none", email_template_id |-> FALSE,
               whatsapp_template_id |-> FALSE, target_vendors |-> <<>>]

\* ------------------------------------------------------------ vendor model
\* Columns declared by the Vendor ORM class.
VendorAttrs ==
  {"id", "company_name", "vendor_code", "contact_person_name", "email",
   "phone_number", "registered_address", "country_origin", "supplier_type",
   "supplier_category", "annual_turnover", "year_established", "currency",
   "msme_status", "pan_number", "gst_number", "gta_registration",
   "incorporation_certificate_path", "nda", "sqa", "four_m",
   "code_of_conduct", "compliance_agreement", "self_declaration",
   "vendor_name", "phone", "msme_category", "business_category",
   "group_category", "location", "registration_date", "udyam_number",
   "opening_balance", "credit_amount", "debit_amount", "closing_balance",
   "last_updated_date", "created_at", "updated_at", "created_by"}

\* Attributes of the vendor object read by _get_vendor_variables.
VendorVariableAttrs ==
  {"name", "company_name", "email", "phone", "whatsapp", "address", "city",
   "state", "pincode", "industry_type", "business_type", "business_size",
   "registration_number", "gst_number", "annual_turnover", "employee_count",
   "establishment_year", "website", "contact_person", "designation"}

\* _get_vendor_variables raises AttributeError when it reads an attribute the
\* Vendor class does not declare.
get_vendor_variables_raises == ~(VendorVariableAttrs \subseteq VendorAttrs)

\* render_template: the Jinja path builds the vendor variables first; when
\* that raises, the except branch calls _simple_template_render, which
\* builds the vendor variables again outside any try block.
simple_template_render_raises == get_vendor_variables_raises
render_template_raises ==
  IF get_vendor_variables_raises THEN simple_template_render_raises ELSE FALSE

\* ------------------------------------------------------- target resolution
IdEntry(v) == [kind |-> "id", v |-> v, key |-> ""]
CritEntry(k) == [kind |-> "crit", v |-> 0, key |-> k]

\* The target_vendors lists the API callers supply in this model.
TargetChoices ==
  { <<>>,
    <<IdEntry(1)>>,
    <<IdEntry(1), IdEntry(2)>>,
    <<CritEntry("industry")>> }

is_uuid(e) == e.kind = "id"

\* Column of Vendor a recognised criterion prefix filters on ("" = the
\* criterion matches none of the startswith branches and is skipped).
CriterionColumn(k) ==
  CASE k = "industry" -> "industry_type"
    [] k = "state" -> "state"
    [] k = "size" -> "business_size"
    [] OTHER -> ""

AllVendorsSeq == [i \in 1..MaxVendors |-> i]

\* The vendors table: vendor 1 has no email address (NULL), the others have.
withEmail == VendorIds \ {1}

\* Vendor 2 has no phone number (NULL), the others have.
withPhone == VendorIds \ {2}

\* _get_target_vendors: [raises, vendors].  `withEmail` is the set of vendors
\* whose email column is not NULL.
get_target_vendors(target) ==
  LET entries == {target[i] : i \in 1..Len(target)}
      allIds == \A e \in entries : is_uuid(e)
      idSet == {e.v : e \in entries}
      raises == /\ target # <<>>
                /\ ~allIds
                /\ \E e \in entries :
                      /\ CriterionColumn(e.key) # ""
                      /\ CriterionColumn(e.key) \notin VendorAttrs
      keep(v) == /\ v \in withEmail
                 /\ (target # <<>> /\ allIds) => v \in idSet
  IN [raises |-> raises,
      vendors |-> IF raises THEN <<>> ELSE SelectSeq(AllVendorsSeq, keep)]

\* ------------------------------------------------------------ email channel
\* The call  self.email_service.send_bulk_emails(email_data)  passes one
\* positional argument; the signature has three without a default.
BulkCallArgs == 1
BulkRequiredArgs == 3
send_bulk_emails_call_raises == BulkCallArgs < BulkRequiredArgs

\* Keys of the dict send_bulk_emails returns, and dict.get with default 0.
BulkResultKeys == {"total", "sent", "failed", "errors", "batches_processed", "batch_size"}
ResultGet(keys, k, value) == IF k \in keys THEN value ELSE 0

\* _execute_campaign_emails: [successful, failed] for n vendors, and the
\* number of EmailService.send_email calls the run reaches (transport).
execute_campaign_emails(n, test_mode) ==
  IF test_mode
    THEN [successful |-> n, failed |-> 0, transport |-> 0]
    ELSE LET prepared == IF render_template_raises THEN 0 ELSE n
         IN IF prepared = 0
              THEN [successful |-> 0, failed |-> n, transport |-> 0]
              ELSE IF send_bulk_emails_call_raises
                     THEN [successful |-> 0, failed |-> n, transport |-> 0]
                     \* the jobs carry the key 'to_email', the dispatcher
                     \* reads 'email': the run stops in its outer except
                     \* with sent = 0 and failed = 0, before any send_email
                     ELSE [successful |-> ResultGet(BulkResultKeys, "successful", 0),
                           failed |-> ResultGet(BulkResultKeys, "failed", 0),
                           transport |-> 0]

\* Vendors the preparation loop of lines 167-180 works on: test mode
\* returns at line 163, before the loop.
email_jobs(vendors, test_mode) == IF test_mode THEN <<>> ELSE vendors

\* _send_campaign_whatsapp for one vendor: the template is rendered before
\* the test_mode check; any exception is caught and gives False.
send_campaign_whatsapp(test_mode, messenger_ok) ==
  IF render_template_raises THEN FALSE
  ELSE IF test_mode THEN TRUE
  ELSE messenger_ok

\* Line 249 of _send_campaign_whatsapp (WhatsAppService.send_message) is
\* reached when the render returned and test mode is off.
whatsapp_transport_called(test_mode) == ~render_template_raises /\ ~test_mode

FinalStatusAlways(successful_emails, successful_whatsapp) ==
  IF successful_emails + successful_whatsapp >= 0 THEN COMPLETED ELSE CANCELLED

FinalStatusStuck(successful_emails, successful_whatsapp) ==
  IF successful_emails + successful_whatsapp > 0 THEN COMPLETED ELSE ACTIVE

\* Lines 105-110: the final status from the two success counters.
FinalStatus(successful_emails, successful_whatsapp) ==
  IF successful_emails + successful_whatsapp > 0 THEN COMPLETED ELSE CANCELLED

Min(a, b) == IF a < b THEN a ELSE b

WhatsAppBatchFromStart(vendors, i, batch_size) ==
  SubSeq(vendors, 1, Min(i + batch_size, Len(vendors)))

\* Line 85: batch = vendors[i:i + batch_size].
WhatsAppBatch(vendors, i, batch_size) ==
  SubSeq(vendors, i + 1, Min(i + batch_size, Len(vendors)))

\* _send_campaign_whatsapp queries the WhatsAppTemplate row (line 234) at
\* the start of every call: of the batch_len queries of a batch, those that
\* come after an earlier per-vendor send of the run.
reads_after_send(processed, batch_len) ==
  IF batch_len = 0 THEN 0
  ELSE IF processed # <<>> THEN batch_len ELSE batch_len - 1

\* One entry of the per-vendor channel work of a run.
Sent(channel, vendors) == [k \in 1..Len(vendors) |-> <<channel, vendors[k]>>]

\* ------------------------------------------------------------------- state
VARIABLES
  campaigns,      \* campaigns table: id -> row (NoCampaign = no such row)
  nextCampaign,   \* next fresh campaign id
  responses,      \* msme_responses table: set of rows
  nextResponse,   \* next fresh response row id
  tasks,          \* background tasks: slot -> locals of execute_campaign
  executions,     \* number of background tasks scheduled so far
  cur,            \* task running between two awaits (0 = event loop idle)
  response,       \* HTTP answer of the execute request handled by the last step
  bulk,           \* state of one send_bulk_emails run
  call            \* one call of a channel client or of the template renderer

vars == <<campaigns, nextCampaign, responses, nextResponse, tasks, executions,
          cur, response, bulk, call>>

NoTask == [pc |-> "none", campaign_id |-> 0, send_emails |-> FALSE,
           send_whatsapp |-> FALSE, test_mode |-> FALSE, batch_size |-> 1,
           vendors |-> <<>>, successful_emails |-> 0, successful_whatsapp |-> 0,
           failed_sends |-> 0, i |-> 0, channel_calls |-> 0,
           processed |-> <<>>, transport_sends |-> 0, late_reads |-> 0,
           outcome |-> "none"]

\* CampaignExecutionRequest bodies the callers send.
Opt(se, sw, tm, bs) == [send_emails |-> se, send_whatsapp |-> sw,
                        test_mode |-> tm, batch_size |-> bs]
ExecOptions ==
  { Opt(TRUE, FALSE, FALSE, 50), Opt(TRUE, FALSE, TRUE, 50),
    Opt(FALSE, TRUE, FALSE, 1), Opt(TRUE, TRUE, TRUE, 50) }

\* The answer of a request: the endpoint (op), the campaign, the HTTP code
\* and, for the status query, the execution_progress figures.
NoReport == [total_vendors |-> 0, emails_sent |-> 0, whatsapp_sent |-> 0]
NoResponse == [op |-> "", id |-> 0, code |-> 0, report |-> NoReport]
ExecuteResponse(c, code) == [NoResponse EXCEPT !.op = "execute", !.id = c, !.code = code]

BulkIdle == [pc |-> "idle"]

\* What a call hands back: the returned value (a bool, a phone string or a
\* rendered text), whether it raised instead, and the number of transport
\* operations (SMTP session, HTTP POST) it started.
NoResult == [raised |-> FALSE, value |-> FALSE, transport |-> 0,
             text |-> <<>>, rendered |-> <<>>, names |-> {}]

CallIdle == [fn |-> "none", pc |-> "idle", phone |-> <<>>, user |-> FALSE,
             secret |-> FALSE, outcome |-> "", template |-> <<>>,
             variables |-> {}, vendor |-> "", result |-> NoResult]

Exists(c) == c \in CampaignIds /\ campaigns[c].status # "none"

InitApi ==
  /\ campaigns = [c \in CampaignIds |-> NoCampaign]
  /\ nextCampaign = 1
  /\ responses = {}
  /\ nextResponse = 1
  /\ tasks = [t \in TaskIds |-> NoTask]
  /\ executions = 0
  /\ cur = 0
  /\ response = NoResponse

Init == InitApi /\ bulk = BulkIdle /\ call = CallIdle

\* --------------------------------------------------------------- API layer
\* POST /campaigns: the row gets the column default status Draft.
create_campaign ==
  /\ cur = 0
  /\ nextCampaign \in CampaignIds
  /\ \E et \in BOOLEAN, wt \in BOOLEAN, tv \in TargetChoices :
       campaigns' = [campaigns EXCEPT ![nextCampaign] =
                       [status |-> DRAFT, email_template_id |-> et,
                        whatsapp_template_id |-> wt, target_vendors |-> tv]]
  /\ nextCampaign' = nextCampaign + 1
  /\ response' = NoResponse
  /\ UNCHANGED <<responses, nextResponse, tasks, executions, cur, bulk, call>>

\* The row after the setattr loop of update_campaign (lines 154-156): every
\* field present in the CampaignUpdate body is copied, status included.
UpdatedRow(row, st, tv) == [row EXCEPT !.status = st, !.target_vendors = tv]

\* PUT /campaigns/{id} with a body that sets status and target_vendors.
update_campaign(c) ==
  /\ cur = 0
  /\ Exists(c)
  /\ \E st \in CampaignStatus, tv \in TargetChoices :
       campaigns' = [campaigns EXCEPT ![c] = UpdatedRow(campaigns[c], st, tv)]
  /\ response' = NoResponse
  /\ UNCHANGED <<nextCampaign, responses, nextResponse, tasks, executions, cur, bulk, call>>

\* DELETE /campaigns/{id}: refused while Active; the rows of msme_responses
\* that reference the campaign keep existing with campaign_id NULL (0).
delete_campaign(c) ==
  /\ cur = 0
  /\ Exists(c)
  /\ campaigns[c].status # ACTIVE
  /\ campaigns' = [campaigns EXCEPT ![c] = NoCampaign]
  /\ responses' = {IF r.campaign_id = c THEN [r EXCEPT !.campaign_id = 0] ELSE r
                   : r \in responses}
  /\ response' = NoResponse
  /\ UNCHANGED <<nextCampaign, nextResponse, tasks, executions, cur, bulk, call>>

MayExecuteLoose(status) == status \in {DRAFT, COMPLETED, CANCELLED}

\* The Draft check of the execute endpoint (line 209).
MayExecute(status) == status = DRAFT

StatusOnExecuteKept(status) == status

\* Lines 227-228: the endpoint sets the campaign Active and commits, after
\* add_task and before it returns.
StatusOnExecute(status) == ACTIVE

FreeSlots == {t \in TaskIds : tasks[t].pc \in {"none", "done"}}
FreeSlot == CHOOSE t \in FreeSlots : \A u \in FreeSlots : t <= u

\* POST /campaigns/{id}/execute: 404 / 400, else add the background task and
\* set the campaign Active.
execute_campaign(c) ==
  /\ cur = 0
  /\ IF ~Exists(c)
       THEN /\ response' = ExecuteResponse(c, 404)
            /\ UNCHANGED <<campaigns, tasks, executions>>
       ELSE IF ~MayExecute(campaigns[c].status)
         THEN /\ response' = ExecuteResponse(c, 400)
              /\ UNCHANGED <<campaigns, tasks, executions>>
         ELSE /\ executions < MaxExecutions
              /\ FreeSlots # {}
              /\ \E o \in ExecOptions :
                   tasks' = [tasks EXCEPT ![FreeSlot] =
                               [NoTask EXCEPT !.pc = "queued", !.campaign_id = c,
                                              !.send_emails = o.send_emails,
                                              !.send_whatsapp = o.send_whatsapp,
                                              !.test_mode = o.test_mode,
                                              !.batch_size = o.batch_size]]
              /\ executions' = executions + 1
              /\ campaigns' = [campaigns EXCEPT ![c].status = StatusOnExecute(@)]
              /\ response' = ExecuteResponse(c, 200)
  /\ UNCHANGED <<nextCampaign, responses, nextResponse, cur, bulk, call>>

\* Lines 248-273: the figures of the status answer.  emails_sent and
\* whatsapp_sent are both the number of response rows of the campaign,
\* total_vendors is the length of the target_vendors list.
status_report(campaign_rows, response_rows, c) ==
  LET total == Cardinality({r \in response_rows : r.campaign_id = c})
  IN [total_vendors |-> Len(campaign_rows[c].target_vendors),
      emails_sent |-> total,
      whatsapp_sent |-> total]

\* GET /campaigns/{id}/status.
get_campaign_status(c) ==
  /\ cur = 0
  /\ IF ~Exists(c)
       THEN response' = [NoResponse EXCEPT !.op = "status", !.id = c, !.code = 404]
       ELSE response' = [NoResponse EXCEPT !.op = "status", !.id = c, !.code = 200,
                                           !.report = status_report(campaigns, responses, c)]
  /\ UNCHANGED <<campaigns, nextCampaign, responses, nextResponse, tasks,
                 executions, cur, bulk, call>>

\* ----------------------------------------- CampaignService.execute_campaign
Task(t) == tasks[t]

\* The task has returned: its locals are gone, the way it ended is kept.
Finish(t, outcome) ==
  [tasks EXCEPT ![t] = [NoTask EXCEPT !.pc = "done", !.outcome = outcome,
                                      !.campaign_id = tasks[t].campaign_id]]

CommittedRowsPartial(rows, commit_ok) ==
  IF commit_ok \/ rows = {} THEN rows
  ELSE {CHOOSE r \in rows : \A q \in rows : r.id <= q.id}

\* Rows that reach the table from the add loop followed by the single
\* commit (lines 52-60): all of them, or none when the commit raises.
CommittedRows(rows, commit_ok) == IF commit_ok THEN rows ELSE {}

NoVendorsNever(vendors) == FALSE

\* Lines 45-47: an empty target set ends the run.
NoVendors(vendors) == vendors = <<>>

top_level_handler_noop(row) == row

\* Lines 118-124: the handler loads the campaign again and, when it is
\* there, sets it Cancelled and commits.
top_level_handler(row) == [row EXCEPT !.status = CANCELLED]

\* Lines 36-49: load the campaign, resolve the targets.  An exception of the
\* target resolution reaches the handler of lines 118-124.
ExecBegin(t) ==
  /\ cur = 0
  /\ Task(t).pc = "queued"
  /\ LET c == Task(t).campaign_id IN
     IF ~Exists(c)
       THEN /\ tasks' = Finish(t, "not_found")
            /\ UNCHANGED <<campaigns, cur>>
       ELSE LET r == get_target_vendors(campaigns[c].target_vendors) IN
         IF r.raises
           THEN /\ campaigns' = [campaigns EXCEPT ![c] = top_level_handler(@)]
                /\ tasks' = Finish(t, "exception")
                /\ UNCHANGED cur
           ELSE IF NoVendors(r.vendors)
             THEN /\ tasks' = Finish(t, "no_vendors")
                  /\ UNCHANGED <<campaigns, cur>>
             ELSE /\ tasks' = [tasks EXCEPT ![t].pc = "create_responses",
                                            ![t].vendors = r.vendors]
                  /\ cur' = t
                  /\ UNCHANGED campaigns
  /\ response' = NoResponse
  /\ UNCHANGED <<nextCampaign, responses, nextResponse, executions, bulk, call>>

\* Lines 51-64: one Pending row per vendor, one commit; on an exception the
\* run returns.
ExecCreateResponses(t) ==
  /\ cur = t
  /\ Task(t).pc = "create_responses"
  /\ LET n == Len(Task(t).vendors)
         rows == {[id |-> nextResponse + k - 1,
                   campaign_id |-> Task(t).campaign_id,
                   vendor_id |-> Task(t).vendors[k],
                   response_status |-> PENDING] : k \in 1..n}
     IN \E commit_ok \in BOOLEAN :
          /\ responses' = responses \cup CommittedRows(rows, commit_ok)
          /\ nextResponse' = IF commit_ok THEN nextResponse + n ELSE nextResponse
          /\ IF commit_ok
               THEN /\ tasks' = [tasks EXCEPT ![t].pc = "email"]
                    /\ UNCHANGED cur
               ELSE /\ tasks' = Finish(t, "record_failure")
                    /\ cur' = 0
  /\ response' = NoResponse
  /\ UNCHANGED <<campaigns, nextCampaign, executions, bulk, call>>

\* Lines 70-79: the email channel.
ExecEmail(t) ==
  /\ cur = t
  /\ Task(t).pc = "email"
  /\ LET c == Task(t).campaign_id
         n == Len(Task(t).vendors)
         res == execute_campaign_emails(n, Task(t).test_mode)
     IN IF Task(t).send_emails /\ campaigns[c].email_template_id
          THEN tasks' = [tasks EXCEPT ![t].pc = "whatsapp_check",
                                      ![t].successful_emails = res.successful,
                                      ![t].failed_sends = @ + res.failed,
                                      ![t].channel_calls = @ + 1,
                                      ![t].processed =
                                         @ \o Sent("email",
                                                   email_jobs(Task(t).vendors,
                                                              Task(t).test_mode)),
                                      ![t].transport_sends = @ + res.transport]
          ELSE tasks' = [tasks EXCEPT ![t].pc = "whatsapp_check"]
  /\ response' = NoResponse
  /\ UNCHANGED <<campaigns, nextCampaign, responses, nextResponse, executions,
                 cur, bulk, call>>

\* Line 82: the WhatsApp channel is entered when it is enabled and the
\* campaign has a WhatsApp template.
ExecWhatsAppCheck(t) ==
  /\ cur = t
  /\ Task(t).pc = "whatsapp_check"
  /\ LET c == Task(t).campaign_id IN
     IF Task(t).send_whatsapp /\ campaigns[c].whatsapp_template_id
       THEN tasks' = [tasks EXCEPT ![t].pc = "whatsapp_batch", ![t].i = 0]
       ELSE tasks' = [tasks EXCEPT ![t].pc = "finalize"]
  /\ response' = NoResponse
  /\ UNCHANGED <<campaigns, nextCampaign, responses, nextResponse, executions,
                 cur, bulk, call>>

\* Lines 84-100: one batch of vendors, one _send_campaign_whatsapp per
\* vendor, then asyncio.sleep(1), which suspends the task.
ExecWhatsAppBatch(t) ==
  /\ cur = t
  /\ Task(t).pc = "whatsapp_batch"
  /\ LET n == Len(Task(t).vendors)
         i == Task(t).i
         last == Min(i + Task(t).batch_size, n)
         vendor == WhatsAppBatch(Task(t).vendors, i, Task(t).batch_size)
         batch == DOMAIN vendor
     IN IF i < n
          THEN \E messenger_ok \in SUBSET batch :
                 LET succ == Cardinality({k \in batch :
                                 send_campaign_whatsapp(Task(t).test_mode,
                                                        k \in messenger_ok)})
                     called == IF whatsapp_transport_called(Task(t).test_mode)
                                 THEN Cardinality(batch) ELSE 0
                 IN /\ tasks' = [tasks EXCEPT
                                   ![t].pc = "wa_sleep",
                                   ![t].i = last,
                                   ![t].successful_whatsapp = @ + succ,
                                   ![t].failed_sends = @ + (Cardinality(batch) - succ),
                                   ![t].channel_calls = @ + Cardinality(batch),
                                   ![t].processed = @ \o Sent("whatsapp", vendor),
                                   ![t].late_reads =
                                      @ + reads_after_send(Task(t).processed,
                                                           Cardinality(batch)),
                                   ![t].transport_sends = @ + called]
                    /\ cur' = 0
          ELSE /\ tasks' = [tasks EXCEPT ![t].pc = "finalize"]
               /\ UNCHANGED cur
  /\ response' = NoResponse
  /\ UNCHANGED <<campaigns, nextCampaign, responses, nextResponse, executions, bulk, call>>

\* The sleep of line 100 is over: the task is resumed by the event loop.
ExecWake(t) ==
  /\ cur = 0
  /\ Task(t).pc = "wa_sleep"
  /\ tasks' = [tasks EXCEPT ![t].pc = "whatsapp_batch"]
  /\ cur' = t
  /\ response' = NoResponse
  /\ UNCHANGED <<campaigns, nextCampaign, responses, nextResponse, executions, bulk, call>>

\* Lines 105-112: the final status and its commit.  When the row was deleted
\* while the task slept the commit raises and the handler of lines 118-124
\* finds no campaign.
ExecFinalize(t) ==
  /\ cur = t
  /\ Task(t).pc = "finalize"
  /\ LET c == Task(t).campaign_id IN
     IF Exists(c)
       THEN /\ campaigns' = [campaigns EXCEPT ![c].status =
                               FinalStatus(Task(t).successful_emails,
                                           Task(t).successful_whatsapp)]
            /\ tasks' = Finish(t, "finished")
       ELSE /\ tasks' = Finish(t, "exception")
            /\ UNCHANGED campaigns
  /\ cur' = 0
  /\ response' = NoResponse
  /\ UNCHANGED <<nextCampaign, responses, nextResponse, executions, bulk, call>>

Next ==
  \/ create_campaign
  \/ \E c \in CampaignIds : update_campaign(c)
  \/ \E c \in CampaignIds : delete_campaign(c)
  \/ \E c \in CampaignIds : execute_campaign(c)
  \/ \E c \in CampaignIds : get_campaign_status(c)
  \/ \E t \in TaskIds : ExecBegin(t)
  \/ \E t \in TaskIds : ExecCreateResponses(t)
  \/ \E t \in TaskIds : ExecEmail(t)
  \/ \E t \in TaskIds : ExecWhatsAppCheck(t)
  \/ \E t \in TaskIds : ExecWhatsAppBatch(t)
  \/ \E t \in TaskIds : ExecWake(t)
  \/ \E t \in TaskIds : ExecFinalize(t)

Spec == Init /\ [][Next]_vars

\* ------------------------------------------- EmailService.send_bulk_emails
apiVars == <<campaigns, nextCampaign, responses, nextResponse, tasks,
             executions, cur, response>>

\* Concurrent sends per sub-batch (line 155).
sub_batch_size == 10

\* What one send_email coroutine hands to asyncio.gather: True, False, or an
\* exception object (return_exceptions=True).
Outcomes == {"ok", "fail", "exc"}

\* Job lists of the runs: their lengths, the batch_size argument, the
\* outcome of each job's send and the jobs whose dict lacks a key the
\* subject or body template names (str.format raises KeyError).
JobCounts == {0, 1, 3, MaxJobs - 1, MaxJobs}
BulkBatchSizes == {5, 11, 100}
OutcomePatterns(n) ==
  {[k \in 1..n |-> "ok"], [k \in 1..n |-> "fail"],
   [k \in 1..n |-> IF k % 2 = 0 THEN "fail" ELSE "ok"]}
  \cup {[k \in 1..n |-> IF k = p THEN "fail" ELSE "ok"] : p \in 1..n}
  \cup {[k \in 1..n |-> IF k = p THEN "exc" ELSE "ok"] : p \in 1..n}
BadJobSets(n) == {{}} \cup {{p} : p \in 1..n}

\* The results dict of lines 135-142 and the loop variables.
BulkStart(n, bs, outcome, bad) ==
  [pc |-> "batch", n |-> n, batch_size |-> bs, outcome |-> outcome, bad |-> bad,
   i |-> 0, j |-> 0, tasks |-> 0, inflight |-> 0,
   sent |-> 0, failed |-> 0, errors |-> <<>>, batches_processed |-> 0,
   attempted |-> {}, delays |-> 0]

InitBulk ==
  /\ InitApi
  /\ \E n \in JobCounts, bs \in BulkBatchSizes :
       \E outcome \in OutcomePatterns(n), bad \in BadJobSets(n) :
         bulk = BulkStart(n, bs, outcome, bad)
  /\ call = CallIdle

BatchLen == Min(bulk.batch_size, bulk.n - bulk.i)

SubBatchLenWhole == BatchLen - bulk.j

\* Line 160: the slice batch[j:j + sub_batch_size].
SubBatchLen == Min(sub_batch_size, BatchLen - bulk.j)
\* 1-based positions in email_list of the jobs of the current sub-batch
SubBatch == (bulk.i + bulk.j + 1)..(bulk.i + bulk.j + SubBatchLen)

\* The error entry appended by the outer except (line 214); job entries
\* carry the 1-based position of their job.
BulkError == 0

\* Line 148: the next outer batch, or the end of the loop.
BulkBatchStart ==
  /\ bulk.pc = "batch"
  /\ IF bulk.i < bulk.n
       THEN bulk' = [bulk EXCEPT !.pc = "prepare", !.j = 0, !.tasks = 0]
       ELSE bulk' = [bulk EXCEPT !.pc = "done"]
  /\ UNCHANGED <<apiVars, call>>

\* Lines 165-170 sit outside any per-job try: a job whose arguments cannot
\* be built (missing dict key) raises out of both loops.
PrepareAborts(job, bad) == job \in bad

\* Lines 164-171: build the coroutine of the next job of the sub-batch; the
\* arguments are evaluated first, and an exception there leaves the loops
\* for the outer except of lines 212-214.
BulkPrepare ==
  /\ bulk.pc = "prepare"
  /\ bulk.tasks < SubBatchLen
  /\ LET job == bulk.i + bulk.j + bulk.tasks + 1 IN
     IF PrepareAborts(job, bulk.bad)
       THEN bulk' = [bulk EXCEPT !.pc = "done",
                                 !.errors = Append(@, BulkError)]
       ELSE bulk' = [bulk EXCEPT !.tasks = @ + 1]
  /\ UNCHANGED <<apiVars, call>>

\* Line 174: asyncio.gather starts every coroutine of the sub-batch.
BulkGather ==
  /\ bulk.pc = "prepare"
  /\ bulk.tasks = SubBatchLen
  /\ bulk' = [bulk EXCEPT !.pc = "waiting", !.inflight = bulk.tasks,
                          !.attempted = @ \cup SubBatch]
  /\ UNCHANGED <<apiVars, call>>

\* One send_email of the sub-batch has returned.
BulkSendDone ==
  /\ bulk.pc = "waiting"
  /\ bulk.inflight > 0
  /\ bulk' = [bulk EXCEPT !.inflight = @ - 1]
  /\ UNCHANGED <<apiVars, call>>

RECURSIVE FailedJobs(_, _, _)
\* positions lo..hi whose outcome is not "ok", in increasing order
FailedJobs(outcome, lo, hi) ==
  IF lo > hi THEN <<>>
  ELSE (IF outcome[lo] # "ok" THEN <<lo>> ELSE <<>>) \o FailedJobs(outcome, lo + 1, hi)

\* Lines 177-198: the gather has returned; count every result and go to the
\* next sub-batch (after the 0.5 s pause) or to the end of the batch.
BulkCollect ==
  /\ bulk.pc = "waiting"
  /\ bulk.inflight = 0
  /\ LET lo == bulk.i + bulk.j + 1
         hi == bulk.i + bulk.j + SubBatchLen
         bad == FailedJobs(bulk.outcome, lo, hi)
     IN bulk' = [bulk EXCEPT
                   !.sent = @ + (SubBatchLen - Len(bad)),
                   !.failed = @ + Len(bad),
                   !.errors = @ \o bad,
                   !.pc = IF bulk.j + sub_batch_size < BatchLen
                            THEN "sub_sleep" ELSE "batch_end"]
  /\ UNCHANGED <<apiVars, call>>

\* Line 198 is over: the next sub-batch of the same batch.
BulkSubSleep ==
  /\ bulk.pc = "sub_sleep"
  /\ bulk' = [bulk EXCEPT !.pc = "prepare", !.j = @ + sub_batch_size, !.tasks = 0]
  /\ UNCHANGED <<apiVars, call>>

DelayFollowsNever(i, batch_size, n) == FALSE

\* Line 204: the inter-batch sleep is taken when jobs are left after the batch.
DelayFollows(i, batch_size, n) == i + batch_size < n

\* Lines 200-206: the batch is counted; a delay follows when more jobs are left.
BulkBatchEnd ==
  /\ bulk.pc = "batch_end"
  /\ IF DelayFollows(bulk.i, bulk.batch_size, bulk.n)
       THEN bulk' = [bulk EXCEPT !.pc = "delay", !.batches_processed = @ + 1]
       ELSE bulk' = [bulk EXCEPT !.pc = "batch", !.batches_processed = @ + 1,
                                 !.i = @ + bulk.batch_size]
  /\ UNCHANGED <<apiVars, call>>

\* Line 206 is over: asyncio.sleep(delay_between_batches) has returned.
BulkDelay ==
  /\ bulk.pc = "delay"
  /\ bulk' = [bulk EXCEPT !.pc = "batch", !.delays = @ + 1,
                          !.i = @ + bulk.batch_size]
  /\ UNCHANGED <<apiVars, call>>

NextBulk ==
  \/ BulkBatchStart
  \/ BulkPrepare
  \/ BulkGather
  \/ BulkSendDone
  \/ BulkCollect
  \/ BulkSubSleep
  \/ BulkBatchEnd
  \/ BulkDelay

SpecBulk == InitBulk /\ [][NextBulk]_vars

\* ------------------------------------------------------- channel clients
engineVars == <<campaigns, nextCampaign, responses, nextResponse, tasks,
                executions, cur, response, bulk>>

Ret(value, transport) == [NoResult EXCEPT !.value = value, !.transport = transport]
Raised(transport) == [NoResult EXCEPT !.raised = TRUE, !.transport = transport]

CatchNothing(r) == r

\* `except Exception as e: ... return False` around a body with result r.
Catch(r) == IF r.raised THEN [r EXCEPT !.raised = FALSE, !.value = FALSE] ELSE r

\* What the SMTP server does with the session, what the messaging API
\* answers to the POST.
SmtpOutcomes == {"ok", "connect_error", "auth_error", "refused"}
HttpOutcomes == {"200", "200_bad_json", "201", "400", "500", "timeout"}

\* Lines 82-99: one SMTP session; smtplib raises on any failure.
smtp_session(smtp) == IF smtp = "ok" THEN Ret(TRUE, 1) ELSE Raised(1)

\* _send_smtp_email: the session inside try / except.
send_smtp_email(smtp) == Catch(smtp_session(smtp))

email_configured_either(smtp_username, smtp_password) ==
  smtp_username \/ smtp_password

\* Line 59: both SMTP_USERNAME and SMTP_PASSWORD are non-empty.
email_configured(smtp_username, smtp_password) == smtp_username /\ smtp_password

\* EmailService.send_email with arguments of their declared types.
send_email(smtp_username, smtp_password, smtp) ==
  Catch(IF email_configured(smtp_username, smtp_password)
          THEN send_smtp_email(smtp)
          ELSE Ret(TRUE, 0))

\* ---- phone numbers: strings are sequences of one-character strings
Digits == {"0", "1", "2", "3", "4", "5", "6", "7", "8", "9"}
DigitChar == <<"0", "1", "2", "3", "4", "5", "6", "7", "8", "9">>
MobileRange == {"9", "8", "7", "6"}

\* Lengths of lines 162 and 166.
NationalLen == 10
MinPhoneLen == 10
MaxPhoneLen == 15

is_kept(ch) == ch \in Digits \/ ch = "+"

\* WhatsAppService._clean_phone_number; <<>> is the empty string.
clean_phone_number(phone_number) ==
  IF phone_number = <<>> THEN <<>>
  ELSE LET kept == SelectSeq(phone_number, is_kept)
           bare == IF kept # <<>> /\ Head(kept) = "+" THEN Tail(kept) ELSE kept
           clean_number ==
             IF Len(bare) = NationalLen /\ Head(bare) \in MobileRange
               THEN <<"9", "1">> \o bare ELSE bare
       IN IF Len(clean_number) < MinPhoneLen \/ Len(clean_number) > MaxPhoneLen
            THEN <<>> ELSE clean_number

\* Lines 129-143: the POST raises (timeout, connection), or answers; on 200
\* the body is parsed, which raises when it is not JSON.
whatsapp_api_post(http) ==
  IF http \in {"timeout", "200_bad_json"} THEN Raised(1)
  ELSE Ret(http = "200", 1)

\* _send_whatsapp_api_request: the POST inside try / except.
send_whatsapp_api_request(http) == Catch(whatsapp_api_post(http))

\* Line 36: access token and phone number id are both non-empty.
whatsapp_configured(access_token, phone_number_id) ==
  access_token /\ phone_number_id

\* WhatsAppService.send_message with arguments of their declared types.
send_message(phone_number, access_token, phone_number_id, http) ==
  Catch(LET clean_phone == clean_phone_number(phone_number) IN
        IF clean_phone = <<>> THEN Ret(FALSE, 0)
        ELSE IF ~whatsapp_configured(access_token, phone_number_id)
          THEN Ret(TRUE, 0)
          ELSE send_whatsapp_api_request(http))

\* ---- the phone numbers of the calls
MaxDigits == 16
Example10 == <<"9", "8", "7", "6", "5", "4", "3", "2", "1", "0">>
DigitRun(first, k) ==
  [p \in 1..k |-> IF p = 1 THEN first ELSE DigitChar[((20 - p) % 10) + 1]]
\* run with the separator string sep put in after its first `at` digits
Separated(run, sep, at) ==
  IF at > Len(run) THEN run
  ELSE SubSeq(run, 1, at) \o sep \o SubSeq(run, at + 1, Len(run))
PhonePrefixes == {<<>>, <<"+">>, <<"+", "+">>, <<"+", "9", "1", " ">>, <<"0">>}
PhoneSeparators == {<<>>, <<" ">>, <<"-">>, <<"+">>}
PhoneInputs ==
  {<<"1", "2", "3">>} \cup
  {pre \o Separated(DigitRun(first, k), sep, 5) :
     pre \in PhonePrefixes, first \in {"9", "6", "5"},
     k \in 0..MaxDigits, sep \in PhoneSeparators}
PhoneSamples ==
  {<<>>, <<"1", "2", "3">>, Example10,
   <<"+", "9", "1", " ">> \o Separated(Example10, <<" ">>, 5),
   DigitRun("5", 11), DigitRun("5", MaxDigits)}

\* ------------------------------------------------------ template renderer
\* A template is a sequence of tokens: literal text, a "{{name}}" token, a
\* "{name}" token, or a piece Jinja2 cannot parse (such as a lone "{% endif %}").
\* A substituted token carries where its value came from.
Lit == [kind |-> "lit", name |-> "", src |-> ""]
Jinja(k) == [kind |-> "jinja", name |-> k, src |-> ""]
Brace(k) == [kind |-> "brace", name |-> k, src |-> ""]
Unparsable == [kind |-> "bad", name |-> "", src |-> ""]
Value(k, src) == [kind |-> "val", name |-> k, src |-> src]

\* Keys of the dict _get_vendor_variables returns.
VendorVariableKeys == (VendorVariableAttrs \ {"name"}) \cup {"vendor_name"}

\* The vendor objects render_template is given: a row of the Vendor class,
\* or the MockVendor of _get_sample_vendor (template preview).
VendorKinds == {"row", "sample"}
AttrsOf(vendor) == IF vendor = "row" THEN VendorAttrs ELSE VendorVariableAttrs

\* _get_vendor_variables: raises AttributeError on a missing attribute.
get_vendor_variables(vendor) ==
  IF VendorVariableAttrs \subseteq AttrsOf(vendor)
    THEN [raised |-> FALSE, keys |-> VendorVariableKeys]
    ELSE [raised |-> TRUE, keys |-> {}]

\* Lines 22-25: env.from_string raises TemplateSyntaxError on a piece it
\* cannot parse; render puts in the value of a defined name, nothing for an
\* undefined one, and keeps single-brace tokens as text.  dict.update has
\* let the caller's variables replace the vendor's of the same name.
jinja_render(template, vendor_keys, variables) ==
  IF \E p \in DOMAIN template : template[p].kind = "bad"
    THEN [NoResult EXCEPT !.raised = TRUE]
    ELSE [NoResult EXCEPT !.rendered =
            [p \in DOMAIN template |->
               IF template[p].kind # "jinja" THEN template[p]
               ELSE IF template[p].name \in variables
                 THEN Value(template[p].name, "caller")
               ELSE IF template[p].name \in vendor_keys
                 THEN Value(template[p].name, "vendor")
               ELSE Value(template[p].name, "undefined")]]

\* One str.replace pass of lines 64-66 or 70-72: both token forms of every
\* key are replaced by the key's value.
replace_tokens(rendered, keys, src) ==
  [p \in DOMAIN rendered |->
     IF rendered[p].kind \in {"jinja", "brace"} /\ rendered[p].name \in keys
       THEN Value(rendered[p].name, src) ELSE rendered[p]]

\* _simple_template_render: the vendor pass, then the caller's variables.
simple_template_render(template, vendor, variables) ==
  LET vendor_vars == get_vendor_variables(vendor) IN
  IF vendor_vars.raised THEN [NoResult EXCEPT !.raised = TRUE]
  ELSE [NoResult EXCEPT !.rendered =
          replace_tokens(replace_tokens(template, vendor_vars.keys, "vendor"),
                         variables, "caller")]

\* render_template: the Jinja2 path inside try, the fallback in except.
render_template(template, vendor, variables) ==
  LET vendor_vars == get_vendor_variables(vendor)
      structured == IF vendor_vars.raised THEN [NoResult EXCEPT !.raised = TRUE]
                    ELSE jinja_render(template, vendor_vars.keys, variables)
  IN IF structured.raised
       THEN simple_template_render(template, vendor, variables)
       ELSE structured

\* What the two regular expressions of extract_variables capture in one
\* token: "{{k}}" gives k to both (the inner "{k}" matches the second),
\* "{k}" gives k to the second, "{% endif %}" gives "% endif %" to the second.
jinja_vars(template) ==
  {template[p].name : p \in {q \in DOMAIN template : template[q].kind = "jinja"}}
simple_vars(template) ==
  {template[p].name : p \in {q \in DOMAIN template :
                                template[q].kind \in {"jinja", "brace"}}}
  \cup {"% endif %" : p \in {q \in DOMAIN template : template[q].kind = "bad"}}

\* Line 91: a captured text with a space, a pipe or a parenthesis is an
\* expression, not a variable name.
is_expression(var) == var \in {"% endif %"}

\* Lines 87-92: the filter of the captured names.
keep_variable(var) == ~is_expression(var)

\* TemplateService.extract_variables (the sorted list as a set).
extract_variables(template) ==
  {var \in jinja_vars(template) \cup simple_vars(template) : keep_variable(var)}

\* ---- the templates and variables of the calls
MaxTokens == 3
TokenChoices == {Lit, Jinja("email"), Brace("email"), Jinja("deadline"),
                 Brace("deadline"), Unparsable}
Templates == UNION {[1..k -> TokenChoices] : k \in 0..MaxTokens}
CallerVariables == SUBSET {"email", "deadline"}

\* ------------------------------------------------------------ client calls
Call(fn) == [CallIdle EXCEPT !.fn = fn, !.pc = "called"]

InitClient ==
  /\ InitApi
  /\ bulk = BulkIdle
  /\ \/ \E u \in BOOLEAN, s \in BOOLEAN, o \in SmtpOutcomes :
          call = [Call("send_email") EXCEPT !.user = u, !.secret = s, !.outcome = o]
     \/ \E ph \in PhoneSamples, u \in BOOLEAN, s \in BOOLEAN, o \in HttpOutcomes :
          call = [Call("send_message") EXCEPT !.phone = ph, !.user = u,
                                              !.secret = s, !.outcome = o]
     \/ \E ph \in PhoneInputs :
          call = [Call("clean_phone_number") EXCEPT !.phone = ph]
     \/ \E tp \in Templates, vs \in CallerVariables, vd \in VendorKinds :
          call = [Call("render_template") EXCEPT !.template = tp,
                                                 !.variables = vs, !.vendor = vd]
     \/ \E tp \in Templates :
          call = [Call("extract_variables") EXCEPT !.template = tp]

Returns(result) == call' = [call EXCEPT !.pc = "returned", !.result = result]

CallSendEmail ==
  /\ call.fn = "send_email" /\ call.pc = "called"
  /\ Returns(send_email(call.user, call.secret, call.outcome))
  /\ UNCHANGED engineVars

CallSendMessage ==
  /\ call.fn = "send_message" /\ call.pc = "called"
  /\ Returns(send_message(call.phone, call.user, call.secret, call.outcome))
  /\ UNCHANGED engineVars

CallCleanPhoneNumber ==
  /\ call.fn = "clean_phone_number" /\ call.pc = "called"
  /\ Returns([NoResult EXCEPT !.text = clean_phone_number(call.phone)])
  /\ UNCHANGED engineVars

CallRenderTemplate ==
  /\ call.fn = "render_template" /\ call.pc = "called"
  /\ Returns(render_template(call.template, call.vendor, call.variables))
  /\ UNCHANGED engineVars

CallExtractVariables ==
  /\ call.fn = "extract_variables" /\ call.pc = "called"
  /\ Returns([NoResult EXCEPT !.names = extract_variables(call.template)])
  /\ UNCHANGED engineVars

NextClient ==
  \/ CallSendEmail
  \/ CallSendMessage
  \/ CallCleanPhoneNumber
  \/ CallRenderTemplate
  \/ CallExtractVariables

SpecClient == InitClient /\ [][NextClient]_vars

\* ------------------------------------------------------------ properties
Started(t) == tasks[t].pc \notin {"none", "queued", "done"}
Ends(t) == tasks[t].pc # "done" /\ tasks'[t].pc = "done"
Range(f) == {f[k] : k \in DOMAIN f}
RowsOf(c, v) == {r \in responses : r.campaign_id = c /\ r.vendor_id = v}

\* C1: a run that reaches the final status step sets the campaign to
\* Completed when successful_emails + successful_whatsapp > 0 and to
\* Cancelled otherwise.
C1_FinalStatusBySuccesses ==
  [][\A t \in TaskIds :
       (tasks[t].pc = "finalize" /\ Ends(t) /\ tasks'[t].outcome = "finished")
       => LET c == tasks[t].campaign_id
              total == tasks[t].successful_emails + tasks[t].successful_whatsapp
          IN /\ total > 0 => campaigns'[c].status = COMPLETED
             /\ total = 0 => campaigns'[c].status = CANCELLED]_vars

C1_Witness ==
  \E t \in TaskIds :
    /\ tasks[t].pc = "done" /\ tasks[t].outcome = "finished"
    /\ campaigns[tasks[t].campaign_id].status = COMPLETED

\* C2 (as claimed): with n >= 1 vendors, only the email channel enabled and
\* test mode off, the n Pending rows exist, the email result is sent = n and
\* failed = 0, and the run ends in Completed.
C2_EmailOnlyAllSent ==
  /\ [](\A t \in TaskIds :
          LET c == tasks[t].campaign_id IN
          (/\ tasks[t].pc \in {"whatsapp_check", "finalize"}
           /\ tasks[t].send_emails /\ ~tasks[t].send_whatsapp /\ ~tasks[t].test_mode
           /\ campaigns[c].email_template_id)
          => /\ \A v \in Range(tasks[t].vendors) : RowsOf(c, v) # {}
             /\ tasks[t].successful_emails = Len(tasks[t].vendors)
             /\ tasks[t].failed_sends = 0)
  /\ [][\A t \in TaskIds :
          LET c == tasks[t].campaign_id IN
          (/\ tasks[t].pc = "finalize" /\ Ends(t)
           /\ tasks[t].send_emails /\ ~tasks[t].send_whatsapp /\ ~tasks[t].test_mode
           /\ campaigns[c].email_template_id)
          => campaigns'[c].status = COMPLETED]_vars

C4_EmptyTargetsNoEffect ==
  /\ [](\A t \in TaskIds : Started(t) => Len(tasks[t].vendors) >= 1)
  /\ [][\A t \in TaskIds :
          LET c == tasks[t].campaign_id IN
          (/\ tasks[t].pc = "queued" /\ tasks'[t] # tasks[t]
           /\ campaigns[c].status # "none"
           /\ ~get_target_vendors(campaigns[c].target_vendors).raises
           /\ get_target_vendors(campaigns[c].target_vendors).vendors = <<>>)
          => /\ tasks'[t].pc = "done"
             /\ tasks'[t].channel_calls = 0
             /\ responses' = responses
             /\ campaigns' = campaigns]_vars

C4_Witness ==
  \E t \in TaskIds :
    /\ tasks[t].pc = "done" /\ tasks[t].outcome = "no_vendors"
    /\ campaigns[tasks[t].campaign_id].status = ACTIVE
    /\ responses = {}

\* C5 (as claimed): the status of an existing campaign changes only along
\* Draft -> Active, Active -> Completed and Active -> Cancelled.
C5_OneDirectional ==
  [][\A c \in CampaignIds :
       (/\ campaigns[c].status # "none" /\ campaigns'[c].status # "none"
        /\ campaigns'[c].status # campaigns[c].status)
       => <<campaigns[c].status, campaigns'[c].status>> \in
            {<<DRAFT, ACTIVE>>, <<ACTIVE, COMPLETED>>, <<ACTIVE, CANCELLED>>}]_vars

\* C6: an execute request for a campaign that is not in Draft is answered
\* 400, schedules no background task and changes no campaign; a background
\* task is scheduled only for a campaign that was in Draft.
C6_ExecuteOnlyFromDraft ==
  [][/\ (/\ response'.op = "execute"
         /\ campaigns[response'.id].status \in {ACTIVE, COMPLETED, CANCELLED})
        => /\ response'.code = 400
           /\ tasks' = tasks /\ executions' = executions
           /\ campaigns' = campaigns
     /\ executions' # executions
        => /\ response'.code = 200
           /\ campaigns[response'.id].status = DRAFT]_vars

C6_Witness ==
  /\ response.op = "execute"
  /\ response.code = 400
  /\ campaigns[response.id].status \in {ACTIVE, COMPLETED, CANCELLED}

\* C7 (as claimed): when a run has created its response rows and has not yet
\* entered a channel, the table holds exactly one Pending row of the campaign
\* for each targeted vendor and none for any other vendor.
C7_OnePendingRowPerTarget ==
  \A t \in TaskIds :
    tasks[t].pc = "email" =>
      \A v \in VendorIds :
        LET rows == {r \in RowsOf(tasks[t].campaign_id, v) :
                       r.response_status = PENDING}
        IN Cardinality(rows) = IF v \in Range(tasks[t].vendors) THEN 1 ELSE 0

\* C8: the response-record step either adds exactly one row per targeted
\* vendor and the run goes on to the channels, or adds no row at all and the
\* run is over without having entered a channel.
C8_RecordsAllOrNothing ==
  [][\A t \in TaskIds :
       (tasks[t].pc = "create_responses" /\ tasks'[t] # tasks[t])
       => LET new == responses' \ responses IN
          \/ /\ tasks'[t].pc = "email"
             /\ {r.vendor_id : r \in new} = Range(tasks[t].vendors)
             /\ Cardinality(new) = Len(tasks[t].vendors)
             /\ \A r \in new : r.campaign_id = tasks[t].campaign_id
          \/ /\ tasks'[t].pc = "done"
             /\ tasks[t].channel_calls = 0
             /\ new = {}]_vars

C8_Witness ==
  \E t \in TaskIds :
    /\ tasks[t].pc = "done" /\ tasks[t].outcome = "record_failure"
    /\ responses = {}

\* C9 (as claimed): when a bulk run has returned, sent + failed equals the
\* number of jobs submitted.
C9_SentPlusFailedIsTotal ==
  bulk.pc = "done" => bulk.sent + bulk.failed = bulk.n

\* C10 (as claimed): when a bulk run has returned, a send was started for
\* every job whose own message could be prepared, whatever happened to the
\* other jobs.
C10_SiblingsAttempted ==
  bulk.pc = "done" => (1..bulk.n) \ bulk.bad \subseteq bulk.attempted

Ceil(n, b) == (n + b - 1) \div b

\* C11 (as claimed): a bulk run over n >= 1 jobs with batch size b has, when
\* it returns, processed ceil(n/b) outer batches covering every job and
\* slept the inter-batch delay ceil(n/b) - 1 times.
C11_BatchesAndDelays ==
  (bulk.pc = "done" /\ bulk.n >= 1) =>
    /\ bulk.batches_processed = Ceil(bulk.n, bulk.batch_size)
    /\ bulk.delays = Ceil(bulk.n, bulk.batch_size) - 1
    /\ bulk.attempted = 1..bulk.n

\* C12: when the sends of a sub-batch of outer batch N are started, every
\* job of the batches before N has had its send started and no send is
\* still running, and the inter-batch delay has been slept once for each of
\* those N - 1 batches; the delay after a batch begins only when no send
\* of it is running.
C12_BatchAfterPreviousAndDelay ==
  [][/\ (bulk.pc = "prepare" /\ bulk'.pc = "waiting")
        => /\ bulk.inflight = 0
           /\ (1..bulk.i) \subseteq bulk.attempted
           /\ bulk.sent + bulk.failed = bulk.i + bulk.j
           /\ bulk.delays * bulk.batch_size = bulk.i
     /\ bulk'.pc = "delay" => bulk.inflight = 0]_vars

C12_Witness ==
  /\ bulk.pc = "waiting" /\ bulk.inflight > 0
  /\ bulk.i >= bulk.batch_size /\ bulk.delays >= 1

\* C13: the number of sends in flight never exceeds sub_batch_size, and
\* the sends of a sub-batch are started only when no send is running and
\* the result of every send started before has been counted.
C13_BoundedInFlight ==
  /\ [](bulk.pc # "idle" => bulk.inflight <= sub_batch_size)
  /\ [][(bulk.pc = "prepare" /\ bulk'.pc = "waiting")
          => /\ bulk.inflight = 0
             /\ bulk.sent + bulk.failed = Cardinality(bulk.attempted)
             /\ bulk'.inflight = Cardinality(bulk'.attempted \ bulk.attempted)]_vars

C13_Witness ==
  /\ bulk.pc = "waiting" /\ bulk.inflight > 0
  /\ bulk.j >= sub_batch_size

SentOn(t, channel) ==
  {tasks[t].processed[k][2] : k \in {j \in DOMAIN tasks[t].processed :
                                        tasks[t].processed[j][1] = channel}}

\* C14: within one run no vendor is worked on twice on the same channel: the
\* per-vendor channel work of a run never holds the same (channel, vendor)
\* pair twice, whatever the sends returned, and each step adds at most the
\* vendors not yet worked on.
C14_AtMostOncePerChannel ==
  /\ [](\A t \in TaskIds :
          \A j, k \in DOMAIN tasks[t].processed :
            tasks[t].processed[j] = tasks[t].processed[k] => j = k)
  /\ [](\A t \in TaskIds :
          Len(tasks[t].processed) <= 2 * Len(tasks[t].vendors))

C14_Witness ==
  \E t \in TaskIds :
    /\ tasks[t].pc = "finalize"
    /\ tasks[t].failed_sends >= 2
    /\ Cardinality(SentOn(t, "whatsapp")) >= 2
    /\ tasks[t].batch_size = 1

\* C15 (as claimed): a run in test mode reaches no transport send, and each
\* channel it enters counts every targeted vendor as sent.
C15_TestModeCountsAll ==
  \A t \in TaskIds :
    tasks[t].test_mode =>
      /\ tasks[t].transport_sends = 0
      /\ (/\ tasks[t].pc \in {"whatsapp_check", "finalize"}
          /\ tasks[t].send_emails
          /\ campaigns[tasks[t].campaign_id].email_template_id)
         => tasks[t].successful_emails = Len(tasks[t].vendors)
      /\ (/\ tasks[t].pc = "finalize"
          /\ tasks[t].send_whatsapp
          /\ tasks[t].i = Len(tasks[t].vendors))
         => tasks[t].successful_whatsapp = Len(tasks[t].vendors)

\* Vendors the target list names: the listed ids, or every vendor.
TargetSelected(target) ==
  IF target # <<>> /\ \A k \in DOMAIN target : is_uuid(target[k])
    THEN {target[k].v : k \in DOMAIN target}
    ELSE VendorIds

\* C16 (as claimed): a vendor worked on on the email channel has an email
\* address, a vendor worked on on the WhatsApp channel has a phone number,
\* and a run keeps every selected vendor that has the address of a channel
\* the run uses.
C16_RecipientsHaveAddress ==
  /\ [](\A t \in TaskIds :
          /\ SentOn(t, "email") \subseteq withEmail
          /\ SentOn(t, "whatsapp") \subseteq withPhone)
  /\ [][\A t \in TaskIds :
          (tasks[t].pc = "queued" /\ tasks'[t].pc = "create_responses")
          => \A v \in TargetSelected(campaigns[tasks[t].campaign_id].target_vendors) :
               (\/ tasks[t].send_emails /\ v \in withEmail
                \/ tasks[t].send_whatsapp /\ v \in withPhone)
               => v \in Range(tasks'[t].vendors)]_vars

Returned(fn) == call.fn = fn /\ call.pc = "returned"
Unconfigured == ~(call.user /\ call.secret)
OnlyDigits(str) == \A p \in DOMAIN str : str[p] \in Digits

\* C17 (as claimed): a send of either client with unset credentials starts
\* no transport operation and returns True, whoever the recipient is.
C17_UnconfiguredAlwaysSucceeds ==
  ((Returned("send_email") \/ Returned("send_message")) /\ Unconfigured)
  => /\ call.result.transport = 0
     /\ ~call.result.raised
     /\ call.result.value = TRUE

\* C17 (amended): a send of either client with unset credentials starts no
\* transport operation; send_email returns True, and send_message returns
\* True exactly when the phone number passes _clean_phone_number (a
\* rejected number gives False before the credentials are looked at).
C17_UnconfiguredNoTransport ==
  /\ (Returned("send_email") /\ Unconfigured)
     => /\ call.result.transport = 0
        /\ ~call.result.raised
        /\ call.result.value = TRUE
  /\ (Returned("send_message") /\ Unconfigured)
     => /\ call.result.transport = 0
        /\ ~call.result.raised
        /\ call.result.value = (clean_phone_number(call.phone) # <<>>)

C17_Witness ==
  /\ Returned("send_message") /\ Unconfigured
  /\ call.phone = Example10
  /\ call.outcome = "500"
  /\ call.result.value = TRUE /\ call.result.transport = 0

\* C18: a send of either client returns and never raises; with credentials
\* set it returns True exactly when the transport operation succeeded (and,
\* for send_message, the phone number was accepted), so every transport
\* error, rejection or rejected number gives False; without credentials
\* True comes from the no-op mode.
C18_SendNeverRaises ==
  /\ Returned("send_email")
     => /\ ~call.result.raised
        /\ call.result.value = (Unconfigured \/ call.outcome = "ok")
  /\ Returned("send_message")
     => /\ ~call.result.raised
        /\ clean_phone_number(call.phone) = <<>> => call.result.value = FALSE
        /\ call.result.value = TRUE => (Unconfigured \/ call.outcome = "200")
        /\ (~Unconfigured /\ call.outcome # "200") => call.result.value = FALSE

C18_Witness ==
  /\ Returned("send_message") /\ ~Unconfigured
  /\ call.phone = Example10
  /\ call.outcome = "timeout"
  /\ call.result.value = FALSE /\ call.result.transport = 1

\* the digits of a string, in order
DigitsOf(str) == SelectSeq(str, LAMBDA ch : ch \in Digits)

\* C19 (as claimed): _clean_phone_number returns the empty string or a
\* string of 10 to 15 digits: the digits of the input, with 91 put in front
\* when they are 10 digits starting with 6, 7, 8 or 9, and the empty string
\* when their number is then outside 10..15.
C19_PhoneDigitsOnly ==
  Returned("clean_phone_number") =>
    LET d == DigitsOf(call.phone)
        e == IF Len(d) = 10 /\ Head(d) \in {"6", "7", "8", "9"}
               THEN <<"9", "1">> \o d ELSE d
    IN /\ \/ call.result.text = <<>>
          \/ /\ OnlyDigits(call.result.text)
             /\ Len(call.result.text) \in 10..15
       /\ call.result.text = IF Len(e) \in 10..15 THEN e ELSE <<>>

\* C20 (as claimed): when render_template returns a text, every token of a
\* name that both the caller and the vendor supply carries the caller's
\* value: the "{{name}}" tokens on the Jinja2 path, both token forms on the
\* fallback path.
C20_CallerOverridesVendor ==
  (Returned("render_template") /\ ~call.result.raised) =>
    \A p \in DOMAIN call.template :
      LET tok == call.template[p]
          fallback == \E q \in DOMAIN call.template :
                        call.template[q].kind = "bad"
      IN (/\ tok.name \in call.variables \cap VendorVariableKeys
          /\ tok.kind \in (IF fallback THEN {"jinja", "brace"} ELSE {"jinja"}))
         => call.result.rendered[p] = Value(tok.name, "caller")

Placeholders(template) ==
  {p \in DOMAIN template : template[p].kind \in {"jinja", "brace"}}
HasBothForms(template) ==
  /\ \E p \in DOMAIN template : template[p].kind = "jinja"
  /\ \E p \in DOMAIN template : template[p].kind = "brace"
  /\ \A p \in DOMAIN template : template[p].kind # "bad"

\* C21 (as claimed): for a template with a "{{a}}" and a "{b}" token,
\* extract_variables returns exactly the names of its tokens, and
\* render_template, called with a value for each of these names and
\* returning a text, has replaced every token by the caller's value, so
\* that no brace is left.
C21_ExtractRenderRoundTrip ==
  /\ (Returned("extract_variables") /\ HasBothForms(call.template))
     => call.result.names = {call.template[p].name : p \in Placeholders(call.template)}
  /\ (/\ Returned("render_template") /\ HasBothForms(call.template)
      /\ ~call.result.raised
      /\ \A p \in Placeholders(call.template) :
            call.template[p].name \in call.variables)
     => \A p \in DOMAIN call.template :
          /\ call.result.rendered[p].kind \in {"lit", "val"}
          /\ p \in Placeholders(call.template)
             => call.result.rendered[p] = Value(call.template[p].name, "caller")

\* C22 (as claimed): render_template returns a text and never raises, and
\* a "{{name}}" token whose name neither the caller nor the vendor
\* supplies is rendered as the empty string.
C22_RenderNeverRaises ==
  Returned("render_template") =>
    /\ ~call.result.raised
    /\ \A p \in DOMAIN call.template :
         (/\ call.template[p].kind = "jinja"
          /\ call.template[p].name \notin call.variables \cup VendorVariableKeys)
         => call.result.rendered[p] = Value(call.template[p].name, "undefined")

C25_SingleExecution ==
  \A c \in CampaignIds :
    /\ Cardinality({t \in TaskIds : /\ tasks[t].pc \notin {"none", "done"}
                                     /\ tasks[t].campaign_id = c}) <= 1
    /\ \A v \in VendorIds : Cardinality(RowsOf(c, v)) <= 1

\* C26: the step that schedules a run has written Active when it is over
\* and the run has not taken a step yet; no step of a run writes Active,
\* so the final status of a run is never replaced by the Active of the
\* request that scheduled it.
C26_ActiveBeforeFinalStatus ==
  [][/\ executions' # executions
        => /\ campaigns'[response'.id].status = ACTIVE
           /\ \E t \in TaskIds : /\ tasks[t].pc \in {"none", "done"}
                                  /\ tasks'[t].pc = "queued"
                                  /\ tasks'[t].campaign_id = response'.id
     /\ \A t \in TaskIds :
          (tasks[t].pc \notin {"none", "done"} /\ tasks'[t] # tasks[t])
          => \A c \in CampaignIds :
               campaigns'[c].status = ACTIVE => campaigns[c].status = ACTIVE]_vars

C26_Witness ==
  \E t \in TaskIds :
    /\ tasks[t].pc = "done" /\ tasks[t].outcome = "finished"
    /\ campaigns[tasks[t].campaign_id].status = CANCELLED
    /\ response = NoResponse

\* C28 (as claimed): the WhatsApp channel of a run works on its vendors in
\* consecutive batches of batch_size, goes on after a failed vendor, and
\* sleeps after a batch only when vendors are left.
C28_WhatsAppScheduleAsEmail ==
  [][\A t \in TaskIds :
       (tasks[t].pc = "whatsapp_batch" /\ tasks'[t].pc = "wa_sleep")
       => /\ tasks'[t].i = Min(tasks[t].i + tasks[t].batch_size,
                               Len(tasks[t].vendors))
          /\ tasks'[t].channel_calls - tasks[t].channel_calls
               = tasks'[t].i - tasks[t].i
          /\ tasks'[t].i < Len(tasks[t].vendors)]_vars

\* C29 (as claimed): target resolution does not fail; for a list of vendor
\* ids it gives the listed vendors (those that have an email address), for
\* a list of criteria the vendors that match every criterion.
C29_TargetResolution ==
  [][\A t \in TaskIds :
       LET c == tasks[t].campaign_id
           target == campaigns[c].target_vendors
           named == TargetSelected(target) \cap withEmail
       IN (/\ tasks[t].pc = "queued" /\ tasks'[t] # tasks[t]
           /\ campaigns[c].status # "none" /\ target # <<>>)
          => /\ tasks'[t].outcome # "exception"
             /\ (\A k \in DOMAIN target : is_uuid(target[k]))
                => IF named = {} THEN tasks'[t].outcome = "no_vendors"
                   ELSE Range(tasks'[t].vendors) = named]_vars

\* C27 (as claimed): when a bulk run has returned, errors holds one entry
\* for each failed job and nothing else: as many entries as failed counts,
\* each the entry of a job whose send did not succeed, none twice.
C27_OneErrorPerFailedJob ==
  bulk.pc = "done" =>
    /\ Len(bulk.errors) = bulk.failed
    /\ \A k \in DOMAIN bulk.errors :
         /\ bulk.errors[k] # BulkError
         /\ bulk.errors[k] \in 1..bulk.n
         /\ bulk.outcome[bulk.errors[k]] # "ok"
    /\ \A j, k \in DOMAIN bulk.errors : bulk.errors[j] = bulk.errors[k] => j = k

\* C30 (as claimed): in the state a run leaves when it has set the final
\* status, the status query reports emails_sent = the run's successful
\* emails, whatsapp_sent = its successful WhatsApp messages and
\* total_vendors = the number of vendors the run targeted.
C30_StatusReportsExecution ==
  [][\A t \in TaskIds :
       (tasks[t].pc = "finalize" /\ Ends(t) /\ tasks'[t].outcome = "finished")
       => LET report == status_report(campaigns', responses', tasks[t].campaign_id)
          IN /\ report.emails_sent = tasks[t].successful_emails
             /\ report.whatsapp_sent = tasks[t].successful_whatsapp
             /\ report.total_vendors = Len(tasks[t].vendors)]_vars

====
